---- MODULE Spec2Model ----
(***************************************************************************)
(* A model of the SAP middleware: the Settings object (config.py), the     *)
(* backend stub (sap_service.py), the API-key gate (auth.py) and the two   *)
(* Flask route handlers with the framework's routing (app.py).             *)
(*                                                                         *)
(* Conventions.                                                            *)
(*  - An optional Python string (a value that may be None) is a sequence:  *)
(*    <<>> is None, <<s>> is the string s (so <<"">> is the empty string). *)
(*  - A JSON / Python value is a record [t |-> type name, v |-> literal]   *)
(*    where v is the text Python's str() prints for it.                    *)
(*  - A dict is the sequence of its <<key, value>> pairs in insertion      *)
(*    order (Python dicts keep it, and str(dict) shows it).                *)
(*  - A message is the sequence of the pieces its f-string concatenates.   *)
(*  - A call of a stub operation yields an outcome record                  *)
(*    [kind, exc, msg, value, calls]: kind is "return" or "raise", calls   *)
(*    is the sequence of stub operations entered while it ran.             *)
(***************************************************************************)
EXTENDS Integers, Sequences, FiniteSets, TLC

VARIABLES
    settings,     \* config.settings: [SAP_HOST, API_KEY], optional strings
    hashseed,     \* the interpreter's string-hash key, fixed at process start
    json_strict,  \* TRUE: request.get_json() raises on a non-JSON content type
    ncalls,       \* number of direct calls of the service layer made so far
    last,         \* the latest direct call of the service layer, with its outcome
    prev,         \* the direct call before it
    pc,           \* per worker: where the request it serves stands
    req,          \* per worker: the request being served
    authz,        \* per worker: what the API-key gate decided
    resp,         \* per worker: the response produced
    stub,         \* per worker: the stub operations entered for this request
    log           \* records in the current file of app.logger's rotating handler

vars ==
    <<settings, hashseed, json_strict, ncalls, last, prev, pc, req, authz, resp, stub, log>>

svcVars == <<ncalls, last, prev>>
httpVars == <<pc, req, authz, resp, stub>>
envVars == <<settings, hashseed, json_strict>>

----------------------------------------------------------------------------
(* Bounds of the model *)

\* direct calls of the service layer in one run
MaxCalls == 3
\* string-hash keys 0..MaxSeed
MaxSeed == 2
\* width of a hash value in bits (64 in CPython, narrowed to keep the arithmetic small)
HashBits == 20
\* records the log file holds before the handler rotates it (5 MB in app.py)
LogCapacity == 3

----------------------------------------------------------------------------
(* Python values *)

None == <<>>
Some(s) == <<s>>

NoneJ == [t |-> "NoneType", v |-> "None"]
Str(s) == [t |-> "str", v |-> s]
EmptyList == [t |-> "list", v |-> "[]"]
OneItem == [t |-> "list", v |-> "[{'material_id': 'MAT001', 'quantity': 10}]"]
EmptyDict == [t |-> "dict", v |-> "{}"]
Notes == [t |-> "dict", v |-> "{'notes': 'Test order'}"]
IntJ(s) == [t |-> "int", v |-> s]

\* Python truth value of x (what `not x` and `x and ...` test)
Truthy(x) ==
    CASE x.t = "NoneType" -> FALSE
      [] x.t = "str" -> x.v # ""
      [] x.t = "int" -> x.v # "0"
      [] x.t = "list" -> x.v # "[]"
      [] x.t = "dict" -> x.v # "{}"
      [] OTHER -> TRUE

\* key in d
HasKey(d, k) == \E i \in 1..Len(d) : d[i][1] = k

\* d.get(k)
Get(d, k) ==
    IF HasKey(d, k)
    THEN d[CHOOSE i \in 1..Len(d) : d[i][1] = k][2]
    ELSE NoneJ

RECURSIVE StrOfDict(_)
\* str(d): the pieces of the printed form of the dict d, in insertion order
StrOfDict(d) ==
    IF d = <<>> THEN <<>>
    ELSE <<Head(d)[1], Head(d)[2].t, Head(d)[2].v>> \o StrOfDict(Tail(d))

\* s contains the piece p
Contains(s, p) == \E i \in 1..Len(s) : s[i] = p

----------------------------------------------------------------------------
(* Outcomes of calls *)

NoValue == [none |-> TRUE]

Return(value, calls) ==
    [kind |-> "return", exc |-> "", msg |-> <<>>, value |-> value, calls |-> calls]

Raise(exc, msg, calls) ==
    [kind |-> "raise", exc |-> exc, msg |-> msg, value |-> NoValue, calls |-> calls]

----------------------------------------------------------------------------
(* sap_service.py: the backend stub *)

\* connect_to_sap(): fails exactly when the configured host is the sentinel
connect_to_sap ==
    IF settings.SAP_HOST = Some("fail_connection")
    THEN Raise("SAPConnectionError",
               <<"Failed to connect to SAP: Host unreachable (simulated)">>,
               <<"connect_to_sap">>)
    ELSE Return([status |-> "connected", host |-> settings.SAP_HOST],
                <<"connect_to_sap">>)

\* a plausible slip: the comparison made case-insensitive, so "invalid" is
\* reserved too
not_found_id_any_case(material_id) ==
    material_id \in {"INVALID", "invalid", "NOT_FOUND", "not_found"}

\* the identifiers read_material_data reports as not found
not_found_id(material_id) ==
    material_id = "INVALID" \/ material_id = "NOT_FOUND"

\* a plausible slip: canned sample data, whatever identifier was asked for
material_record_canned(material_id) ==
    [material_id |-> "MAT001",
     description |-> <<"Sample Material ", "MAT001">>,
     quantity |-> 100,
     unit |-> "EA",
     plant |-> "1000"]

\* the record read_material_data returns for material_id
material_record(material_id) ==
    [material_id |-> material_id,
     description |-> <<"Sample Material ", material_id>>,
     quantity |-> 100,
     unit |-> "EA",
     plant |-> "1000"]

\* a plausible slip: the reserved identifiers looked at before connecting
read_material_data_sentinels_first(material_id) ==
    LET conn == connect_to_sap
        calls == <<"read_material_data">> \o conn.calls
    IN  IF not_found_id(material_id)
        THEN Raise("SAPNotFoundError",
                   <<"Material with ID '", material_id, "' not found.">>,
                   <<"read_material_data">>)
        ELSE IF material_id = "ERROR_READ"
        THEN Raise("SAPOperationError",
                   <<"Failed to read data for material '", material_id, "' (simulated).">>,
                   <<"read_material_data">>)
        ELSE IF conn.kind = "raise"
        THEN [conn EXCEPT !.calls = calls]
        ELSE Return(material_record(material_id), calls)

\* read_material_data(material_id)
read_material_data(material_id) ==
    LET conn == connect_to_sap
        calls == <<"read_material_data">> \o conn.calls
    IN  IF conn.kind = "raise"
        THEN [conn EXCEPT !.calls = calls]
        ELSE IF DOMAIN conn.value = {}
        THEN Raise("SAPConnectionError",
                   <<"Connection not established for read_material_data (unexpected internal state)">>,
                   calls)
        ELSE IF not_found_id(material_id)
        THEN Raise("SAPNotFoundError",
                   <<"Material with ID '", material_id, "' not found.">>, calls)
        ELSE IF material_id = "ERROR_READ"
        THEN Raise("SAPOperationError",
                   <<"Failed to read data for material '", material_id, "' (simulated).">>,
                   calls)
        ELSE Return(material_record(material_id), calls)

\* The pieces a printed dict is made of, in a fixed order: the position of a
\* piece is its code, as a character's code point is in a Python string.
Alphabet ==
    << "customer_id", "items", "details", "str", "list", "dict", "NoneType", "int",
       "", "CUST001", "FAIL_CUSTOMER", "[]", "{}", "None", "0",
       "[{'material_id': 'MAT001', 'quantity': 10}]", "{'notes': 'Test order'}" >>

Code(tok) ==
    IF \E i \in 1..Len(Alphabet) : Alphabet[i] = tok
    THEN CHOOSE i \in 1..Len(Alphabet) : Alphabet[i] = tok
    ELSE 0

RECURSIVE HashFold(_, _)
HashFold(h, s) ==
    IF s = <<>> THEN h
    ELSE HashFold((h * 31 + Code(Head(s))) % (2 ^ HashBits), Tail(s))

\* hash(s) of a string s: a keyed hash, the key drawn once per process; the
\* result is a signed integer of HashBits bits
hash(s) ==
    LET u == HashFold((hashseed * 7919 + 5381) % (2 ^ HashBits), s)
    IN  IF u >= 2 ^ (HashBits - 1) THEN u - 2 ^ HashBits ELSE u

\* abs(x)
abs(x) == IF x < 0 THEN 0 - x ELSE x

RECURSIVE Decimal(_)
\* the decimal digits of n >= 0, most significant first
Decimal(n) == IF n < 10 THEN <<n>> ELSE Decimal(n \div 10) \o <<n % 10>>

RECURSIVE ZeroPad(_, _)
\* ds padded with leading zeros to at least w digits
ZeroPad(ds, w) == IF Len(ds) >= w THEN ds ELSE ZeroPad(<<0>> \o ds, w)

\* f"{n:05d}"
Format05d(n) == ZeroPad(Decimal(n), 5)

\* a plausible slip: the identifier salted with a running call count, to make
\* it "more unique"
simulated_order_id_per_call(order_data) ==
    [prefix |-> "SO",
     digits |-> Format05d(abs(hash(StrOfDict(order_data)) + ncalls) % 100000)]

\* f"SO{abs(hash(str(order_data))) % 100000:05d}"
simulated_order_id(order_data) ==
    [prefix |-> "SO", digits |-> Format05d(abs(hash(StrOfDict(order_data))) % 100000)]

\* a plausible slip: only customer_id is required
order_incomplete_customer_only(customer_id, items) == ~Truthy(customer_id)

\* `not customer_id or not items`
order_incomplete(customer_id, items) == ~Truthy(customer_id) \/ ~Truthy(items)

\* a plausible slip: the blocked customer looked at before the required fields
create_sales_order_blocked_first(order_data) ==
    LET conn == connect_to_sap
        calls == <<"create_sales_order">> \o conn.calls
        customer_id == Get(order_data, "customer_id")
        items == Get(order_data, "items")
    IN  IF conn.kind = "raise"
        THEN [conn EXCEPT !.calls = calls]
        ELSE IF customer_id = Str("FAIL_CUSTOMER")
        THEN Raise("SAPOperationError",
                   <<"Customer '", customer_id.v, "' is not valid for sales order creation.">>,
                   calls)
        ELSE IF order_incomplete(customer_id, items)
        THEN Raise("SAPOperationError",
                   <<"Invalid order data: customer_id and items are required.">>, calls)
        ELSE Return([status |-> "success",
                     order_id |-> simulated_order_id(order_data),
                     message |-> "Sales order created successfully in SAP (simulated)."],
                    calls)

\* create_sales_order(order_data)
create_sales_order(order_data) ==
    LET conn == connect_to_sap
        calls == <<"create_sales_order">> \o conn.calls
        customer_id == Get(order_data, "customer_id")
        items == Get(order_data, "items")
    IN  IF conn.kind = "raise"
        THEN [conn EXCEPT !.calls = calls]
        ELSE IF DOMAIN conn.value = {}
        THEN Raise("SAPConnectionError",
                   <<"Connection not established for create_sales_order (unexpected internal state)">>,
                   calls)
        ELSE IF order_incomplete(customer_id, items)
        THEN Raise("SAPOperationError",
                   <<"Invalid order data: customer_id and items are required.">>, calls)
        ELSE IF customer_id = Str("FAIL_CUSTOMER")
        THEN Raise("SAPOperationError",
                   <<"Customer '", customer_id.v, "' is not valid for sales order creation.">>,
                   calls)
        ELSE Return([status |-> "success",
                     order_id |-> simulated_order_id(order_data),
                     message |-> "Sales order created successfully in SAP (simulated)."],
                    calls)

----------------------------------------------------------------------------
(* Inputs *)

\* settings.SAP_HOST: unset, the fault-injection sentinel, and other hosts
Hosts == {None, Some("fail_connection"), Some("sap.example.com"), Some("FAIL_CONNECTION")}

\* settings.API_KEY: unset, empty, or a key
ApiKeys == {None, Some(""), Some("test_api_key_for_testing")}

\* material identifiers: the three reserved ones and others
MaterialIds == {"INVALID", "NOT_FOUND", "ERROR_READ", "MAT001", "TESTMAT", "invalid"}

\* no pair, or one pair with key k and a value of vs
OptPair(k, vs) == {<<>>} \cup {<< <<k, v>> >> : v \in vs}

\* order payloads: each of customer_id, items and details absent or present
Orders ==
    { c \o i \o d :
        c \in OptPair("customer_id", {Str(""), Str("CUST001"), Str("FAIL_CUSTOMER")}),
        i \in OptPair("items", {EmptyList, OneItem}),
        d \in OptPair("details", {Notes}) }
    \cup { << <<"items", OneItem>>, <<"customer_id", Str("CUST001")>> >>,
           << <<"customer_id", NoneJ>>, <<"items", OneItem>> >>,
           << <<"customer_id", IntJ("0")>>, <<"items", OneItem>>, <<"details", Notes>> >> }

----------------------------------------------------------------------------
(* Direct use of the service layer (tests/test_sap_service.py and the    *)
(* module's own __main__ block call the three operations directly)       *)

NoCall == [op |-> "none", arg |-> <<>>, out |-> NoValue]

\* sap_service.connect_to_sap()
CallConnect ==
    /\ ncalls < MaxCalls
    /\ ncalls' = ncalls + 1
    /\ prev' = last
    /\ last' = [op |-> "connect_to_sap", arg |-> <<>>, out |-> connect_to_sap]
    /\ UNCHANGED <<envVars, httpVars, log>>

\* sap_service.read_material_data(id)
CallReadMaterial ==
    /\ ncalls < MaxCalls
    /\ \E id \in MaterialIds \cup {""} :
         last' = [op |-> "read_material_data", arg |-> <<id>>,
                  out |-> read_material_data(id)]
    /\ ncalls' = ncalls + 1
    /\ prev' = last
    /\ UNCHANGED <<envVars, httpVars, log>>

\* sap_service.create_sales_order(order)
CallCreateSalesOrder ==
    /\ ncalls < MaxCalls
    /\ \E order \in Orders :
         last' = [op |-> "create_sales_order", arg |-> order,
                  out |-> create_sales_order(order)]
    /\ ncalls' = ncalls + 1
    /\ prev' = last
    /\ UNCHANGED <<envVars, httpVars, log>>

NextService == CallConnect \/ CallReadMaterial \/ CallCreateSalesOrder

----------------------------------------------------------------------------
(* Requests and responses *)

\* the threads of the server that serve requests
Workers == {"w1", "w2"}

\* a server that serves one request at a time
Sequential == {"w1"}

NoBody == [kind |-> "none", top |-> "none", d |-> <<>>, x |-> NoneJ]
Malformed == [kind |-> "malformed", top |-> "none", d |-> <<>>, x |-> NoneJ]
JsonDict(d) == [kind |-> "json", top |-> "dict", d |-> d, x |-> NoneJ]
JsonOther(x) == [kind |-> "json", top |-> "other", d |-> <<>>, x |-> x]

\* the value of the X-API-KEY header: absent, empty, the key of the tests, others
HeaderKeys ==
    {None, Some(""), Some("test_api_key_for_testing"), Some("TEST_API_KEY_FOR_TESTING"),
     Some("wrong_key")}

\* what a POST may carry as its body
Bodies ==
    {NoBody, Malformed, JsonOther(NoneJ), JsonOther(EmptyList), JsonOther(OneItem),
     JsonOther(IntJ("0")), JsonOther(Str("CUST001"))}
    \cup {JsonDict(d) : d \in Orders}

Request(method, route, material_id, key, is_json, body) ==
    [method |-> method, route |-> route, material_id |-> material_id, key |-> key,
     is_json |-> is_json, body |-> body]

\* the requests a client may send: route is the rule's path the URL matches
\* ("unknown" when it matches none)
Requests ==
    {Request(m, "material", id, k, FALSE, NoBody) :
        m \in {"GET", "POST"}, id \in MaterialIds, k \in HeaderKeys}
    \cup {Request(m, "sales_order", "", k, j, b) :
        m \in {"GET", "POST"}, k \in HeaderKeys, j \in BOOLEAN, b \in Bodies}
    \cup {Request(m, rt, "", k, FALSE, NoBody) :
        m \in {"GET", "POST"}, rt \in {"root", "unknown"}, k \in HeaderKeys}

NoRequest == Request("", "", "", None, FALSE, NoBody)

\* a response: the status and the fields of its JSON body (<<>>: no such field)
Response(status, error, message, json) ==
    [status |-> status, error |-> error, message |-> message, json |-> json]

NoResponse == Response(0, <<>>, <<>>, NoValue)

\* what a view function yields: its response and the stub operations it entered
Handled(r, calls) == [resp |-> r, calls |-> calls]

----------------------------------------------------------------------------
(* auth.py: the API-key gate *)

\* a plausible slip: the truth test of the header dropped, so an absent header
\* equals an unset secret
api_key_accepted_no_truth_test(api_key) == api_key = settings.API_KEY

\* a plausible slip: any non-empty header accepted
api_key_accepted_any_key(api_key) == api_key # None /\ api_key # Some("")

\* the test of decorated_function: `api_key and api_key == settings.API_KEY`
api_key_accepted(api_key) ==
    /\ api_key # None
    /\ api_key # Some("")
    /\ api_key = settings.API_KEY

\* the response of decorated_function when the test fails
unauthorized_response ==
    Response(401, <<>>, <<"Unauthorized: ", "Invalid or missing API Key">>, NoValue)

----------------------------------------------------------------------------
(* app.py: the view functions *)

\* a plausible slip: an operation failure answered 400, as the sales-order
\* view does
get_material_except_op_400(out) ==
    IF out.exc = "SAPNotFoundError"
    THEN Response(404, out.msg, <<>>, NoValue)
    ELSE IF out.exc = "SAPConnectionError"
    THEN Response(503, <<"SAP connection error: ">> \o out.msg, <<>>, NoValue)
    ELSE IF out.exc = "SAPOperationError"
    THEN Response(400, <<"SAP operation error: ">> \o out.msg, <<>>, NoValue)
    ELSE Response(500, <<"An unexpected error occurred">>, <<>>, NoValue)

\* the except clauses of get_material, for the raised outcome out
get_material_except(out) ==
    IF out.exc = "SAPNotFoundError"
    THEN Response(404, out.msg, <<>>, NoValue)
    ELSE IF out.exc = "SAPConnectionError"
    THEN Response(503, <<"SAP connection error: ">> \o out.msg, <<>>, NoValue)
    ELSE IF out.exc = "SAPOperationError"
    THEN Response(500, <<"SAP operation error: ">> \o out.msg, <<>>, NoValue)
    ELSE Response(500, <<"An unexpected error occurred">>, <<>>, NoValue)

\* a plausible slip: a failed read tried once more before giving up
get_material_retries(material_id) ==
    LET out == read_material_data(material_id)
        again == read_material_data(material_id)
    IN  IF out.kind = "return"
        THEN Handled(Response(200, <<>>, <<>>, out.value), out.calls)
        ELSE IF again.kind = "return"
        THEN Handled(Response(200, <<>>, <<>>, again.value), out.calls \o again.calls)
        ELSE Handled(get_material_except(again), out.calls \o again.calls)

\* get_material(material_id)
get_material(material_id) ==
    LET out == read_material_data(material_id)
    IN  IF out.kind = "return"
        THEN Handled(Response(200, <<>>, <<>>, out.value), out.calls)
        ELSE Handled(get_material_except(out), out.calls)

\* request.get_json(): the parsed body, or a raised HTTP error when the body is
\* not JSON; with a content type other than JSON it raises too, or returns None
\* in the framework versions that did
get_json(r) ==
    IF ~r.is_json
    THEN IF json_strict
         THEN Raise("UnsupportedMediaType", <<"415 Unsupported Media Type">>, <<>>)
         ELSE Return(JsonOther(NoneJ), <<>>)
    ELSE IF r.body.kind # "json"
    THEN Raise("BadRequest", <<"400 Bad Request">>, <<>>)
    ELSE Return(r.body, <<>>)

\* isinstance(data, dict)
IsDict(data) == data.top = "dict"

\* the truth value of the parsed body
DataTruthy(data) == IF IsDict(data) THEN data.d # <<>> ELSE Truthy(data.x)

\* a plausible slip: the check of the `details` key left out
body_rejection_no_details_check(data) ==
    IF ~DataTruthy(data) \/ ~IsDict(data)
    THEN Response(400, <<"Invalid input: JSON data expected">>, <<>>, NoValue)
    ELSE NoResponse

\* the checks create_sales_order_api makes of the parsed body: the 400 response
\* it returns, or NoResponse when the body passes
body_rejection(data) ==
    IF ~DataTruthy(data) \/ ~IsDict(data)
    THEN Response(400, <<"Invalid input: JSON data expected">>, <<>>, NoValue)
    ELSE IF ~HasKey(data.d, "details")
    THEN Response(400, <<"Invalid input: 'details' key missing in JSON payload">>,
                  <<>>, NoValue)
    ELSE NoResponse

\* a plausible slip: an operation failure answered 500, as the material view
\* does
create_sales_order_api_except_op_500(out) ==
    IF out.exc = "SAPConnectionError"
    THEN Response(503, <<"SAP connection error: ">> \o out.msg, <<>>, NoValue)
    ELSE IF out.exc = "SAPOperationError"
    THEN Response(500, <<"SAP operation error: ">> \o out.msg, <<>>, NoValue)
    ELSE Response(500, <<"An unexpected error occurred">>, <<>>, NoValue)

\* a plausible slip: the catch-all reporting str(e), as the clauses above it do
create_sales_order_api_except_leaks(out) ==
    IF out.exc = "SAPConnectionError"
    THEN Response(503, <<"SAP connection error: ">> \o out.msg, <<>>, NoValue)
    ELSE IF out.exc = "SAPOperationError"
    THEN Response(400, <<"SAP operation error: ">> \o out.msg, <<>>, NoValue)
    ELSE Response(500, <<"An unexpected error occurred: ">> \o out.msg, <<>>, NoValue)

\* the except clauses of create_sales_order_api, for the raised outcome out
create_sales_order_api_except(out) ==
    IF out.exc = "SAPConnectionError"
    THEN Response(503, <<"SAP connection error: ">> \o out.msg, <<>>, NoValue)
    ELSE IF out.exc = "SAPOperationError"
    THEN Response(400, <<"SAP operation error: ">> \o out.msg, <<>>, NoValue)
    ELSE Response(500, <<"An unexpected error occurred">>, <<>>, NoValue)

\* a plausible slip: the stub called as soon as the body is a mapping, the check
\* of the `details` key made only when the stub accepted the order
create_sales_order_api_stub_first(r) ==
    LET parsed == get_json(r)
        data == parsed.value
        out == create_sales_order(data.d)
    IN  IF parsed.kind = "raise"
        THEN Handled(create_sales_order_api_except(parsed), <<>>)
        ELSE IF ~DataTruthy(data) \/ ~IsDict(data)
        THEN Handled(body_rejection(data), <<>>)
        ELSE IF out.kind = "raise"
        THEN Handled(create_sales_order_api_except(out), out.calls)
        ELSE IF body_rejection(data) # NoResponse
        THEN Handled(body_rejection(data), out.calls)
        ELSE Handled(Response(201, <<>>, <<>>, out.value), out.calls)

\* create_sales_order_api(): everything from get_json() on is inside the try
create_sales_order_api(r) ==
    LET parsed == get_json(r)
        data == parsed.value
        out == create_sales_order(data.d)
    IN  IF parsed.kind = "raise"
        THEN Handled(create_sales_order_api_except(parsed), <<>>)
        ELSE IF body_rejection(data) # NoResponse
        THEN Handled(body_rejection(data), <<>>)
        ELSE IF out.kind = "return"
        THEN Handled(Response(201, <<>>, <<>>, out.value), out.calls)
        ELSE Handled(create_sales_order_api_except(out), out.calls)

\* a plausible slip: the rules registered without `methods=`, each view then
\* sorting out the method itself
AllowedMethods_any(route) ==
    CASE route \in {"root", "material", "sales_order"} -> {"GET", "POST"}
      [] OTHER -> {}

\* the methods each URL rule accepts
AllowedMethods(route) ==
    CASE route = "root" -> {"GET"}
      [] route = "material" -> {"GET"}
      [] route = "sales_order" -> {"POST"}
      [] OTHER -> {}

\* not_found_error
not_found_error ==
    Response(404, <<"Not Found">>, <<"The requested URL was not found on the server.">>,
             NoValue)

\* method_not_allowed_error
method_not_allowed_error ==
    Response(405, <<"Method Not Allowed">>, <<"405 Method Not Allowed">>, NoValue)

\* hello
hello == Response(200, <<>>, <<"Hello, SAP Middleware!">>, NoValue)

----------------------------------------------------------------------------
(* Serving a request *)

\* app.logger's RotatingFileHandler takes one record: a full file is rotated
\* away first and the record opens the new one
emit(l) == IF l >= LogCapacity THEN 1 ELSE l + 1

RECURSIVE Emit(_, _)
\* n records logged one after the other
Emit(l, n) == IF n = 0 THEN l ELSE Emit(emit(l), n - 1)

\* the records a view function logs: get_material its "Request received", its
\* "Attempting" and one for the outcome; create_sales_order_api its "Request
\* received" and one for the outcome, with "Attempting" between them once the
\* body passed the checks
view_records(route, h) ==
    IF route = "material" THEN 3
    ELSE IF h.calls = <<>> THEN 2
    ELSE 3

\* a request arrives at an idle worker
Receive(w) ==
    /\ pc[w] = "idle"
    /\ \E r \in Requests : req' = [req EXCEPT ![w] = r]
    /\ pc' = [pc EXCEPT ![w] = "route"]
    /\ UNCHANGED <<envVars, svcVars, authz, resp, stub, log>>

\* the framework matches the URL and the method: an unknown URL and a method
\* the rule does not accept go to the error handlers, "/" to hello, the two
\* API rules to the gate that wraps their view
Dispatch(w) ==
    /\ pc[w] = "route"
    /\ IF req[w].route = "unknown"
       THEN /\ resp' = [resp EXCEPT ![w] = not_found_error]
            /\ pc' = [pc EXCEPT ![w] = "done"]
            /\ log' = emit(log)
       ELSE IF req[w].method \notin AllowedMethods(req[w].route)
       THEN /\ resp' = [resp EXCEPT ![w] = method_not_allowed_error]
            /\ pc' = [pc EXCEPT ![w] = "done"]
            /\ log' = emit(log)
       ELSE IF req[w].route = "root"
       THEN /\ resp' = [resp EXCEPT ![w] = hello]
            /\ pc' = [pc EXCEPT ![w] = "done"]
            /\ UNCHANGED log
       ELSE /\ pc' = [pc EXCEPT ![w] = "auth"]
            /\ UNCHANGED <<resp, log>>
    /\ UNCHANGED <<envVars, svcVars, req, authz, stub>>

\* decorated_function: the view runs only when the key is accepted
Gate(w) ==
    /\ pc[w] = "auth"
    /\ IF api_key_accepted(req[w].key)
       THEN /\ authz' = [authz EXCEPT ![w] = "passed"]
            /\ pc' = [pc EXCEPT ![w] = "view"]
            /\ UNCHANGED resp
       ELSE /\ authz' = [authz EXCEPT ![w] = "denied"]
            /\ resp' = [resp EXCEPT ![w] = unauthorized_response]
            /\ pc' = [pc EXCEPT ![w] = "done"]
    /\ UNCHANGED <<envVars, svcVars, req, stub, log>>

\* a plausible slip: the fault injection of the module's self-test (it
\* overwrites settings.SAP_HOST) done by the view for the ERROR_READ identifier
\* and never undone
View_injects_fault(w) ==
    /\ pc[w] = "view"
    /\ LET h == IF req[w].route = "material"
                THEN get_material(req[w].material_id)
                ELSE create_sales_order_api(req[w])
       IN  /\ resp' = [resp EXCEPT ![w] = h.resp]
           /\ stub' = [stub EXCEPT ![w] = h.calls]
           /\ log' = Emit(log, view_records(req[w].route, h))
    /\ settings' = IF req[w].route = "material" /\ req[w].material_id = "ERROR_READ"
                   THEN [settings EXCEPT !.SAP_HOST = Some("fail_connection")]
                   ELSE settings
    /\ pc' = [pc EXCEPT ![w] = "done"]
    /\ UNCHANGED <<hashseed, json_strict, svcVars, req, authz>>

\* the view function of the matched rule runs to its response
View(w) ==
    /\ pc[w] = "view"
    /\ LET h == IF req[w].route = "material"
                THEN get_material(req[w].material_id)
                ELSE create_sales_order_api(req[w])
       IN  /\ resp' = [resp EXCEPT ![w] = h.resp]
           /\ stub' = [stub EXCEPT ![w] = h.calls]
           /\ log' = Emit(log, view_records(req[w].route, h))
    /\ pc' = [pc EXCEPT ![w] = "done"]
    /\ UNCHANGED <<envVars, svcVars, req, authz>>

\* the response is sent; the worker is free again
Reply(w) ==
    /\ pc[w] = "done"
    /\ pc' = [pc EXCEPT ![w] = "idle"]
    /\ req' = [req EXCEPT ![w] = NoRequest]
    /\ authz' = [authz EXCEPT ![w] = "pending"]
    /\ resp' = [resp EXCEPT ![w] = NoResponse]
    /\ stub' = [stub EXCEPT ![w] = <<>>]
    /\ UNCHANGED <<envVars, svcVars, log>>

----------------------------------------------------------------------------
(* Specifications *)

\* no request in service and no direct call made yet
Fresh ==
    /\ ncalls = 0
    /\ last = NoCall
    /\ prev = NoCall
    /\ pc = [w \in Workers |-> "idle"]
    /\ req = [w \in Workers |-> NoRequest]
    /\ authz = [w \in Workers |-> "pending"]
    /\ resp = [w \in Workers |-> NoResponse]
    /\ stub = [w \in Workers |-> <<>>]
    /\ log = 0

\* the process has started: Settings holds what the environment gave
Init ==
    /\ settings \in [SAP_HOST : Hosts, API_KEY : ApiKeys]
    /\ hashseed \in 0..MaxSeed
    /\ json_strict \in BOOLEAN
    /\ Fresh

\* the service layer imported on its own, as its tests do: it reads the host
\* alone of Settings and never parses a request
InitService ==
    /\ settings \in [SAP_HOST : Hosts, API_KEY : {Some("test_api_key_for_testing")}]
    /\ hashseed \in 0..MaxSeed
    /\ json_strict = TRUE
    /\ Fresh

Next ==
    \E w \in Sequential : Receive(w) \/ Dispatch(w) \/ Gate(w) \/ View(w) \/ Reply(w)

\* the web application serving requests, one at a time
Spec == Init /\ [][Next]_vars

\* the service layer called directly
SpecService == InitService /\ [][NextService]_vars

\* the requests of the clients of the threaded server: every route, every
\* answer of the gate and of the two views
ConcKeys == {None, Some("test_api_key_for_testing"), Some("wrong_key")}

ConcOrders ==
    { <<>>,
      << <<"customer_id", Str("CUST001")>>, <<"items", OneItem>> >>,
      << <<"customer_id", Str("CUST001")>>, <<"items", OneItem>>, <<"details", Notes>> >>,
      << <<"customer_id", Str("CUST001")>>, <<"details", Notes>> >>,
      << <<"customer_id", Str("FAIL_CUSTOMER")>>, <<"items", OneItem>>,
         <<"details", Notes>> >> }

ConcRequests ==
    {Request("GET", "material", id, k, FALSE, NoBody) :
        id \in {"MAT001", "NOT_FOUND", "ERROR_READ"}, k \in ConcKeys}
    \cup {Request("POST", "sales_order", "", k, TRUE, b) :
        k \in ConcKeys, b \in {NoBody, JsonOther(EmptyList)} \cup {JsonDict(d) : d \in ConcOrders}}
    \cup {Request("GET", "root", "", None, FALSE, NoBody),
          Request("GET", "unknown", "", None, FALSE, NoBody),
          Request("POST", "material", "MAT001", None, FALSE, NoBody)}

\* a request arrives at an idle thread of the threaded server
ReceiveConc(w) ==
    /\ pc[w] = "idle"
    /\ \E r \in ConcRequests : req' = [req EXCEPT ![w] = r]
    /\ pc' = [pc EXCEPT ![w] = "route"]
    /\ UNCHANGED <<envVars, svcVars, authz, resp, stub, log>>

\* the process has started with a key configured
InitConc ==
    /\ settings \in [SAP_HOST : {Some("fail_connection"), Some("sap.example.com")},
                      API_KEY : {Some("test_api_key_for_testing")}]
    /\ hashseed \in 0..MaxSeed
    /\ json_strict \in BOOLEAN
    /\ Fresh

NextConc ==
    \E w \in Workers :
        ReceiveConc(w) \/ Dispatch(w) \/ Gate(w) \/ View(w) \/ Reply(w)

\* the web application serving requests on several threads at once
SpecConc == InitConc /\ [][NextConc]_vars

----------------------------------------------------------------------------
(* Properties of the gate and of the two endpoints (under Spec) *)

\* the request of worker w was routed to one of the two protected views
Protected(w) ==
    /\ pc[w] \in {"auth", "view", "done"}
    /\ req[w].route \in {"material", "sales_order"}
    /\ req[w].method \in AllowedMethods(req[w].route)

\* the header of the request is absent, empty or not the configured secret
KeyRejectable(w) ==
    \/ req[w].key = None
    \/ req[w].key = Some("")
    \/ req[w].key # settings.API_KEY

\* worker w has finished an authorized request for the given route
Served(w, route) ==
    /\ pc[w] = "done"
    /\ authz[w] = "passed"
    /\ req[w].route = route

\* C1: a request to a protected endpoint whose X-API-KEY header is absent, empty
\* or different from the secret never reaches the view, enters no stub
\* operation, and is answered 401 with a message that mentions
\* 'Invalid or missing API Key'.
C1_UnauthorizedNeverReachesStub ==
    \A w \in Workers :
        (Protected(w) /\ KeyRejectable(w)) =>
            /\ pc[w] # "view"
            /\ stub[w] = <<>>
            /\ authz[w] # "passed"
            /\ pc[w] = "done" =>
                 /\ resp[w].status = 401
                 /\ Contains(resp[w].message, "Invalid or missing API Key")
                 /\ resp[w].json = NoValue

C1_Witness ==
    \E w \in Workers :
        /\ Protected(w) /\ pc[w] = "done"
        /\ req[w].route = "sales_order"
        /\ req[w].key = Some("wrong_key")
        /\ settings.SAP_HOST = Some("sap.example.com")
        /\ resp[w].status = 401

\* C2: once the gate has decided, it has let the request through exactly when
\* the header is present, non-empty and equal, character for character, to
\* settings.API_KEY; with the secret unset or empty nothing gets through.
C2_GatePassesIffExactKey ==
    \A w \in Workers :
        authz[w] # "pending" =>
            /\ authz[w] = "passed" <=>
                 /\ Len(req[w].key) = 1
                 /\ req[w].key[1] # ""
                 /\ req[w].key = settings.API_KEY
            /\ settings.API_KEY \in {None, Some("")} => authz[w] = "denied"

C2_Witness ==
    \E w \in Workers :
        /\ authz[w] = "passed"
        /\ pc[w] = "view"
        /\ req[w].key = Some("test_api_key_for_testing")

\* C3: the status of an authorized GET of a material follows the outcome of
\* read_material_data: 200 with the record, 404 for not-found, 503 for a
\* connection failure, 500 for an operation failure.
C3_MaterialStatusByOutcome ==
    \A w \in Workers :
        Served(w, "material") =>
            LET out == read_material_data(req[w].material_id)
            IN  /\ out.kind = "return" =>
                     resp[w].status = 200 /\ resp[w].json = out.value
                /\ (out.kind = "raise" /\ out.exc = "SAPNotFoundError") =>
                     resp[w].status = 404
                /\ (out.kind = "raise" /\ out.exc = "SAPConnectionError") =>
                     resp[w].status = 503
                /\ (out.kind = "raise" /\ out.exc = "SAPOperationError") =>
                     resp[w].status = 500
                /\ resp[w].status \in {200, 404, 503, 500}

C3_Witness ==
    \E w \in Workers :
        /\ Served(w, "material")
        /\ req[w].material_id = "ERROR_READ"
        /\ resp[w].status = 500
        /\ stub[w] = <<"read_material_data", "connect_to_sap">>

\* the body of the request of w passed the checks of create_sales_order_api:
\* it parsed to a non-empty mapping that has the `details` key
BodyPassedChecks(w) ==
    /\ req[w].is_json
    /\ req[w].body.kind = "json"
    /\ req[w].body.top = "dict"
    /\ req[w].body.d # <<>>
    /\ HasKey(req[w].body.d, "details")

\* C4: the status of an authorized POST of a sales order whose body passed the
\* handler's checks follows the outcome of create_sales_order: 201 with the
\* confirmation, 503 for a connection failure, 400 for an operation failure.
C4_SalesOrderStatusByOutcome ==
    \A w \in Workers :
        (Served(w, "sales_order") /\ BodyPassedChecks(w)) =>
            LET out == create_sales_order(req[w].body.d)
            IN  /\ out.kind = "return" =>
                     resp[w].status = 201 /\ resp[w].json = out.value
                /\ (out.kind = "raise" /\ out.exc = "SAPConnectionError") =>
                     resp[w].status = 503
                /\ (out.kind = "raise" /\ out.exc = "SAPOperationError") =>
                     resp[w].status = 400
                /\ resp[w].status \in {201, 503, 400}

C4_Witness ==
    \E w \in Workers :
        /\ Served(w, "sales_order") /\ BodyPassedChecks(w)
        /\ Get(req[w].body.d, "customer_id") = Str("FAIL_CUSTOMER")
        /\ Truthy(Get(req[w].body.d, "items"))
        /\ resp[w].status = 400

\* the parsed body of the request of w is a mapping without the `details` key
MappingWithoutDetails(w) ==
    /\ req[w].is_json
    /\ req[w].body.kind = "json"
    /\ req[w].body.top = "dict"
    /\ ~HasKey(req[w].body.d, "details")

DetailsMissingAnswer(w) ==
    /\ resp[w].status = 400
    /\ resp[w].error = <<"Invalid input: 'details' key missing in JSON payload">>

\* C10 as stated: every authorized POST whose body is a mapping without
\* `details`, whatever its other keys, is answered 400 with the message that
\* the 'details' key is missing.
C10_AnyMappingWithoutDetails ==
    \A w \in Workers :
        (Served(w, "sales_order") /\ MappingWithoutDetails(w)) => DetailsMissingAnswer(w)

\* C10 (amended): every authorized POST whose body is a non-empty mapping
\* without `details` is answered 400 with the message that the 'details' key
\* is missing; the empty mapping is answered 400 "JSON data expected".
C10_NonEmptyMappingWithoutDetails ==
    \A w \in Workers :
        (Served(w, "sales_order") /\ MappingWithoutDetails(w)) =>
            IF req[w].body.d # <<>>
            THEN DetailsMissingAnswer(w)
            ELSE /\ resp[w].status = 400
                 /\ resp[w].error = <<"Invalid input: JSON data expected">>

C10_Witness ==
    \E w \in Workers :
        /\ Served(w, "sales_order") /\ MappingWithoutDetails(w)
        /\ Get(req[w].body.d, "customer_id") = Str("CUST001")
        /\ Get(req[w].body.d, "items") = OneItem
        /\ DetailsMissingAnswer(w)
        /\ stub[w] = <<>>

----------------------------------------------------------------------------
(* Properties of the backend stub (under SpecService) *)

Connectable == settings.SAP_HOST # Some("fail_connection")

ReservedIds == {"INVALID", "NOT_FOUND", "ERROR_READ"}

Failed(call, exc) == call.out.kind = "raise" /\ call.out.exc = exc

\* the key k of the order is absent (or null) or holds an empty value
AbsentOrEmpty(order, k) ==
    \/ ~HasKey(order, k)
    \/ Get(order, k) \in {NoneJ, Str(""), EmptyList}

\* C5: with the fault-injection host configured, read_material_data and
\* create_sales_order fail with a connection failure whatever their input, the
\* reserved identifiers, incomplete orders and the blocked customer included.
C5_ConnectionFailureFirst ==
    (~Connectable /\ last.op \in {"read_material_data", "create_sales_order"}) =>
        /\ Failed(last, "SAPConnectionError")
        /\ last.out.value = NoValue
        /\ last.out.calls = <<last.op, "connect_to_sap">>

C5_Witness ==
    /\ ~Connectable
    /\ last.op = "create_sales_order"
    /\ Get(last.arg, "customer_id") = Str("FAIL_CUSTOMER")
    /\ ~HasKey(last.arg, "items")
    /\ Failed(last, "SAPConnectionError")
    /\ prev.op = "read_material_data"
    /\ prev.arg = <<"ERROR_READ">>
    /\ Failed(prev, "SAPConnectionError")

\* the record read_material_data synthesizes for the identifier id
IsRecordOf(out, id) ==
    /\ out.kind = "return"
    /\ out.value.material_id = id
    /\ Contains(out.value.description, id)
    /\ out.value.quantity = 100
    /\ out.value.unit = "EA"
    /\ out.value.plant = "1000"

\* C6 as stated: for every identifier outside the reserved set,
\* read_material_data returns the record of that identifier.
C6_RecordForEveryOtherId ==
    (last.op = "read_material_data" /\ last.arg[1] \notin ReservedIds) =>
        IsRecordOf(last.out, last.arg[1])

\* C6 (amended): for every identifier outside the reserved set,
\* read_material_data returns the record of that identifier (material_id equal
\* to the input, description embedding it, quantity 100, unit "EA", plant
\* "1000") provided the configured host is not the fault-injection sentinel;
\* with the sentinel host it fails with a connection failure instead.
C6_RecordForOtherIdWhenConnectable ==
    (last.op = "read_material_data" /\ last.arg[1] \notin ReservedIds) =>
        IF Connectable
        THEN IsRecordOf(last.out, last.arg[1])
        ELSE Failed(last, "SAPConnectionError")

C6_Witness ==
    /\ Connectable
    /\ last.op = "read_material_data"
    /\ last.arg = <<"invalid">>
    /\ IsRecordOf(last.out, "invalid")

\* C7: with a connectable host read_material_data fails exactly on the three
\* reserved identifiers: not-found for "INVALID" and "NOT_FOUND", with the
\* identifier in the message, an operation failure for "ERROR_READ"; a failure
\* carries no record.
C7_FailsExactlyOnReserved ==
    (Connectable /\ last.op = "read_material_data") =>
        LET id == last.arg[1]
        IN  /\ last.out.kind = "raise" <=> id \in ReservedIds
            /\ id \in {"INVALID", "NOT_FOUND"} =>
                 /\ Failed(last, "SAPNotFoundError")
                 /\ Contains(last.out.msg, id)
            /\ id = "ERROR_READ" => Failed(last, "SAPOperationError")
            /\ last.out.kind = "raise" => last.out.value = NoValue

C7_Witness ==
    /\ Connectable
    /\ last.op = "read_material_data"
    /\ last.arg = <<"NOT_FOUND">>
    /\ Failed(last, "SAPNotFoundError")

\* the order is one create_sales_order must refuse
Refusable(order) ==
    \/ AbsentOrEmpty(order, "customer_id")
    \/ AbsentOrEmpty(order, "items")
    \/ Get(order, "customer_id") = Str("FAIL_CUSTOMER")

\* C8 as stated: create_sales_order fails with an operation failure whenever
\* customer_id or items is absent or empty or the customer is the blocked one,
\* and produces no confirmation.
C8_OperationFailureOnBadOrder ==
    (last.op = "create_sales_order" /\ Refusable(last.arg)) =>
        /\ Failed(last, "SAPOperationError")
        /\ last.out.value = NoValue

\* C8 (amended): with a connectable host, create_sales_order fails with an
\* operation failure whenever customer_id or items is absent or empty or the
\* customer is the blocked one; with the fault-injection host it fails with a
\* connection failure; in neither case is a confirmation produced.
C8_OperationFailureWhenConnectable ==
    (last.op = "create_sales_order" /\ Refusable(last.arg)) =>
        /\ IF Connectable
           THEN Failed(last, "SAPOperationError")
           ELSE Failed(last, "SAPConnectionError")
        /\ last.out.value = NoValue

C8_Witness ==
    /\ Connectable
    /\ last.op = "create_sales_order"
    /\ Get(last.arg, "customer_id") = Str("FAIL_CUSTOMER")
    /\ Get(last.arg, "items") = OneItem
    /\ Failed(last, "SAPOperationError")

\* the order is valid: customer_id non-empty and not blocked, items non-empty
ValidOrder(order) ==
    /\ Truthy(Get(order, "customer_id"))
    /\ Get(order, "customer_id") # Str("FAIL_CUSTOMER")
    /\ Truthy(Get(order, "items"))

RECURSIVE NumberOf(_)
\* the number a sequence of decimal digits writes
NumberOf(ds) ==
    IF ds = <<>> THEN 0 ELSE NumberOf(SubSeq(ds, 1, Len(ds) - 1)) * 10 + ds[Len(ds)]

\* id is "SO" followed by exactly five decimal digits
WellFormedId(id) ==
    /\ id.prefix = "SO"
    /\ Len(id.digits) = 5
    /\ \A i \in 1..Len(id.digits) : id.digits[i] \in 0..9

Confirmed(call) ==
    /\ call.op = "create_sales_order"
    /\ call.out.kind = "return"

\* C9: with a connectable host a valid order is confirmed with status
\* "success" and an identifier "SO" plus exactly five decimal digits, which
\* write the hash of the order's printed form reduced to 0..99999; two calls
\* with the same order yield the same identifier.
C9_OrderIdFormatAndDeterminism ==
    /\ (Connectable /\ last.op = "create_sales_order" /\ ValidOrder(last.arg)) =>
          /\ Confirmed(last)
          /\ last.out.value.status = "success"
          /\ WellFormedId(last.out.value.order_id)
          /\ NumberOf(last.out.value.order_id.digits)
               = abs(hash(StrOfDict(last.arg))) % 100000
    /\ (Confirmed(last) /\ Confirmed(prev) /\ last.arg = prev.arg) =>
          last.out.value.order_id = prev.out.value.order_id

C9_Witness ==
    /\ Confirmed(last) /\ Confirmed(prev)
    /\ last.arg = prev.arg
    /\ ValidOrder(last.arg)
    /\ abs(hash(StrOfDict(last.arg))) >= 100000
    /\ last.out.value.order_id.digits[1] = 0
    /\ last.out.value.order_id = prev.out.value.order_id

----------------------------------------------------------------------------
(* Properties of the handlers' failure paths (under Spec) *)

\* the request of w carries no body, a body that is not JSON, or JSON that is
\* not a mapping
BodyAbsentOrNotMapping(w) ==
    \/ req[w].body.kind \in {"none", "malformed"}
    \/ req[w].body.kind = "json" /\ req[w].body.top # "dict"

JsonExpectedAnswer(w) ==
    /\ resp[w].status = 400
    /\ resp[w].error = <<"Invalid input: JSON data expected">>

\* C11: every authorized POST of a sales order whose body is absent or is not
\* a mapping (no body, a body that fails to parse as JSON, a JSON array or
\* scalar) is answered 400 with error "Invalid input: JSON data expected".
C11_NotMappingAnswered400 ==
    \A w \in Workers :
        (Served(w, "sales_order") /\ BodyAbsentOrNotMapping(w)) => JsonExpectedAnswer(w)

\* the URL of the request of w matches a rule that does not accept its method
WrongMethod(w) ==
    \/ req[w].route = "material" /\ req[w].method = "POST"
    \/ req[w].route = "sales_order" /\ req[w].method = "GET"
    \/ req[w].route = "root" /\ req[w].method = "POST"

\* the request of w never came to the gate, to a view or to the stub
NeverPastRouting(w) ==
    /\ pc[w] = "done"
    /\ authz[w] = "pending"
    /\ stub[w] = <<>>

\* C12: once routed, a request for a URL no rule matches is answered 404 with
\* error "Not Found", and a request with a method its rule does not accept is
\* answered 405 with error "Method Not Allowed"; neither comes to the gate or
\* to the stub.
C12_UnroutedAnsweredByErrorHandlers ==
    \A w \in Workers :
        pc[w] \notin {"idle", "route"} =>
            /\ req[w].route = "unknown" =>
                 /\ NeverPastRouting(w)
                 /\ resp[w].status = 404
                 /\ resp[w].error = <<"Not Found">>
            /\ WrongMethod(w) =>
                 /\ NeverPastRouting(w)
                 /\ resp[w].status = 405
                 /\ resp[w].error = <<"Method Not Allowed">>

C12_Witness ==
    \E w \in Workers :
        /\ pc[w] = "done"
        /\ req[w].route = "material" /\ req[w].method = "POST"
        /\ req[w].key = settings.API_KEY
        /\ req[w].key = Some("test_api_key_for_testing")
        /\ resp[w].status = 405
        /\ authz[w] = "pending"

\* the stub operations one request may have entered: none, or one operation
\* with its one connection attempt
OneStubCall ==
    {<<>>, <<"read_material_data", "connect_to_sap">>,
     <<"create_sales_order", "connect_to_sap">>}

\* the stub is entered at most once for the request of w, and only by the step
\* that also produces the response; a response exists exactly when w is done
AtMostOneStubCall(w) ==
    /\ stub[w] \in OneStubCall
    /\ stub[w] # <<>> => pc[w] = "done"
    /\ pc[w] = "done" <=> resp[w] # NoResponse

\* once the stub was entered, or the response produced, for the request of w,
\* nothing more happens to either until the response is sent
NothingAfterResponse(w) ==
    /\ stub[w] # <<>> =>
         \/ stub'[w] = stub[w]
         \/ stub'[w] = <<>> /\ pc'[w] = "idle"
    /\ resp[w] # NoResponse =>
         \/ resp'[w] = resp[w]
         \/ resp'[w] = NoResponse /\ pc'[w] = "idle"

\* C13: handling one request enters the stub operation at most once and
\* produces exactly one response; a failure the stub raised is translated
\* into that response and the stub is not entered again.
C13_StubOnceResponseOnce ==
    /\ [](\A w \in Workers : AtMostOneStubCall(w))
    /\ [][\A w \in Workers : NothingAfterResponse(w)]_vars

C13_Witness ==
    \E w \in Workers :
        /\ pc[w] = "done"
        /\ req[w].route = "material"
        /\ stub[w] = <<"read_material_data", "connect_to_sap">>
        /\ ~Connectable
        /\ resp[w].status = 503

\* the failure kinds the except clauses of the view of a route name
Anticipated(route) ==
    IF route = "material"
    THEN {"SAPNotFoundError", "SAPConnectionError", "SAPOperationError"}
    ELSE {"SAPConnectionError", "SAPOperationError"}

\* what is raised inside the try of the view serving the request of w, if
\* anything: by reading the body, or else by the stub operation
RaisedInView(w) ==
    IF req[w].route = "material"
    THEN read_material_data(req[w].material_id)
    ELSE IF get_json(req[w]).kind = "raise"
    THEN get_json(req[w])
    ELSE IF body_rejection(get_json(req[w]).value) # NoResponse
    THEN Return(NoValue, <<>>)
    ELSE create_sales_order(get_json(req[w]).value.d)

\* C14: a failure raised while an authorized request is handled that is none
\* of the kinds the view anticipates is answered 500 with the fixed error
\* "An unexpected error occurred", and no piece of the failure's own message
\* is in the body.
C14_UnexpectedFailureIsGeneric500 ==
    \A w \in Workers :
        (/\ pc[w] = "done"
         /\ authz[w] = "passed"
         /\ RaisedInView(w).kind = "raise"
         /\ RaisedInView(w).exc \notin Anticipated(req[w].route)) =>
            /\ resp[w].status = 500
            /\ resp[w].error = <<"An unexpected error occurred">>
            /\ resp[w].message = <<>>
            /\ resp[w].json = NoValue
            /\ \A i \in 1..Len(RaisedInView(w).msg) :
                 ~Contains(resp[w].error, RaisedInView(w).msg[i])

C14_Witness ==
    \E w \in Workers :
        /\ Served(w, "sales_order")
        /\ req[w].is_json
        /\ req[w].body = Malformed
        /\ RaisedInView(w).exc = "BadRequest"
        /\ resp[w].status = 500

----------------------------------------------------------------------------
(* The order of the checks of create_sales_order (under SpecService) *)

RequiredFieldsMessage == <<"Invalid order data: customer_id and items are required.">>

BlockedCustomerMessage ==
    <<"Customer '", "FAIL_CUSTOMER", "' is not valid for sales order creation.">>

\* customer_id and items of the order are both there and not empty
Complete(order) ==
    /\ Truthy(Get(order, "customer_id"))
    /\ Truthy(Get(order, "items"))

Blocked(order) == Get(order, "customer_id") = Str("FAIL_CUSTOMER")

\* C15: create_sales_order reports the first check that fails, in the order
\* connect, required fields, blocked customer: the blocked customer without
\* items gets "customer_id and items are required.", and an identifier is
\* produced only when all three checks pass.
C15_FirstFailingCheckReported ==
    last.op = "create_sales_order" =>
        /\ ~Connectable => Failed(last, "SAPConnectionError")
        /\ (Connectable /\ ~Complete(last.arg)) =>
             /\ Failed(last, "SAPOperationError")
             /\ last.out.msg = RequiredFieldsMessage
        /\ (Connectable /\ Complete(last.arg) /\ Blocked(last.arg)) =>
             /\ Failed(last, "SAPOperationError")
             /\ last.out.msg = BlockedCustomerMessage
        /\ last.out.kind = "return" <=>
             (Connectable /\ Complete(last.arg) /\ ~Blocked(last.arg))
        /\ last.out.kind = "raise" => last.out.value = NoValue

C15_Witness ==
    /\ Connectable
    /\ last.op = "create_sales_order"
    /\ Blocked(last.arg)
    /\ Get(last.arg, "items") = EmptyList
    /\ Failed(last, "SAPOperationError")
    /\ last.out.msg = RequiredFieldsMessage

----------------------------------------------------------------------------
(* The body checks of the POST handler come before the stub (under Spec) *)

\* the POST of worker w passed the gate and carries a non-empty mapping that
\* has no `details` key
AuthorizedWithoutDetails(w) ==
    /\ authz[w] = "passed"
    /\ req[w].route = "sales_order"
    /\ req[w].body.kind = "json"
    /\ req[w].body.top = "dict"
    /\ req[w].body.d # <<>>
    /\ ~HasKey(req[w].body.d, "details")

\* C16: for an authorized POST whose body is a non-empty mapping without
\* `details`, neither create_sales_order nor connect_to_sap is ever entered,
\* and the response is 400, never 503, whatever the configured host and however
\* valid customer_id and items are.
C16_BodyChecksBeforeStub ==
    \A w \in Workers :
        AuthorizedWithoutDetails(w) =>
            /\ stub[w] = <<>>
            /\ (pc[w] = "done" /\ req[w].is_json) =>
                 /\ resp[w].status = 400
                 /\ resp[w].status # 503

C16_Witness ==
    \E w \in Workers :
        /\ settings.SAP_HOST = Some("fail_connection")
        /\ pc[w] = "done"
        /\ AuthorizedWithoutDetails(w) /\ req[w].is_json
        /\ Truthy(Get(req[w].body.d, "customer_id"))
        /\ Get(req[w].body.d, "customer_id") # Str("FAIL_CUSTOMER")
        /\ Truthy(Get(req[w].body.d, "items"))
        /\ resp[w].status = 400
        /\ stub[w] = <<>>

----------------------------------------------------------------------------
(* Independence of the requests (under SpecConc) *)

\* two threads that finished the same request hold the same response, however
\* their steps and those of other requests interleaved
SameRequestSameResponse ==
    \A w1, w2 \in Workers :
        (pc[w1] = "done" /\ pc[w2] = "done" /\ req[w1] = req[w2]) =>
            /\ resp[w1] = resp[w2]
            /\ stub[w1] = stub[w2]
            /\ authz[w1] = authz[w2]

\* C17 as stated: no handler, gate or stub operation writes to Settings or to
\* any other state shared between requests, the log file included, and the
\* response is a function of the request alone under every interleaving.
C17_NoSharedStateWritten ==
    /\ [][UNCHANGED <<settings, hashseed, json_strict, log>>]_vars
    /\ []SameRequestSameResponse

\* C17 (amended): no handler, gate or stub operation writes to Settings or to
\* the process's hash key; the shared log file apart, nothing a request leaves
\* behind reaches another, so the response is a function of the request alone
\* under every interleaving.
C17_ResponseFunctionOfRequest ==
    /\ [][UNCHANGED <<settings, hashseed, json_strict>>]_vars
    /\ []SameRequestSameResponse

C17_Witness ==
    /\ pc["w1"] = "done" /\ pc["w2"] = "done"
    /\ req["w1"] = req["w2"]
    /\ req["w1"].route = "sales_order"
    /\ resp["w1"].status = 201
    /\ resp["w2"] = resp["w1"]
    /\ log = LogCapacity

====
